---- MODULE Spec2Model ----
(***************************************************************************)
(* Balance / alert reconciliation of the equipment tracking back office.   *)
(* Tables are sets of rows keyed by a generated id, as in the ORM models:  *)
(* no table carries a uniqueness constraint on (customer_name,             *)
(* equipment_type), so uniqueness is a property to check, not a given.     *)
(***************************************************************************)
EXTENDS Integers, FiniteSets, Sequences, TLC

\* ---------------------------------------------------------------- bounds
MaxOps == 3            \* handler calls in one behaviour of Spec
MaxConcApplies == 3    \* update_customer_balance calls begun in SpecConc
MaxUploads == 2        \* photo uploads in one behaviour of SpecUpload
MaxSetupOps == 2       \* handler calls before the session of SpecUpsert
MaxCalls == 2          \* direct _create_alert calls in that session
MaxAdminOps == 3       \* handler calls in one behaviour of SpecAdmin
MaxDispatches == 5     \* requests through the middleware in SpecLimiter
MaxAuthOps == 5        \* handler calls in one behaviour of SpecAuth

\* ------------------------------------------------------- input universes
Customers == {"c1", "c2"}
EquipmentTypes == {"pallet", "cage"}
Directions == {"in", "out"}
Quantities == {-5, 8, 30}
Thresholds == {-1, 25}
Sessions == {"s1", "s2"}

\* ----------------------------------------------------- program constants
DEFAULT_THRESHOLD == 20
\* HIGH_PRIORITY_MULTIPLIER = 1.5, kept exact as the fraction 3/2
HIGH_PRIORITY_MULTIPLIER_NUM == 3
HIGH_PRIORITY_MULTIPLIER_DEN == 2

Pairs == Customers \X EquipmentTypes

Movements == [customer_name : Customers, equipment_type : EquipmentTypes,
              quantity : Quantities, direction : Directions]

NoRow == [id |-> 0]

VARIABLES
    balances,   \* table customer_balances: set of rows
    alerts,     \* table alerts: set of rows
    movements,  \* table equipment_movements: set of rows
    nextId,     \* source of fresh primary keys (uuid4 / movement ids)
    applied,    \* history: pair -> quantities applied, per direction
    sess,       \* per ORM session: position and uncommitted objects
    ops,        \* number of operations begun (bounds the behaviours)
    response,   \* what the last photo upload returned to its caller
    runs,       \* SpecOrder: the two orders of a batch and their results
    customers,  \* table customers: set of rows
    specs,      \* table equipment_specifications: set of rows
    limiter,    \* the RateLimitMiddleware object, its clock and its history
    users,      \* table users: set of rows
    user_sessions, \* table user_sessions: set of rows
    tokens,     \* history: the bearer tokens issued by POST /auth/login
    instructions \* table driver_instructions: set of rows

adminVars == <<customers, specs>>

authVars == <<users, user_sessions, tokens, instructions>>

vars == <<balances, alerts, movements, nextId, applied, sess, ops, response,
          runs, customers, specs, limiter, users, user_sessions, tokens,
          instructions>>

\* ------------------------------------------------------------- helpers
Max(a, b) == IF a >= b THEN a ELSE b

\* variant: the direction is ignored, every movement is added
SignedQuantityIgnoresDirection(m) == m.quantity

\* balance_service.py 38-41: IN increases, anything else decreases
SignedQuantity(m) ==
    IF m.direction = "in" THEN m.quantity ELSE 0 - m.quantity

\* variant: the balance query filters on the customer alone
MatchingBalancesAnyType(bals, c, e) ==
    {b \in bals : b.customer_name = c}

\* balance_service.py 20-23: the filter of the balance query
MatchingBalances(bals, c, e) ==
    {b \in bals : b.customer_name = c /\ b.equipment_type = e}

\* balance_service.py 27-34: the row built by the create branch
NewBalance(id, m) ==
    [id |-> id, customer_name |-> m.customer_name,
     equipment_type |-> m.equipment_type, current_balance |-> 0,
     threshold |-> DEFAULT_THRESHOLD, status |-> "normal"]

\* balance_service.py 46-53: the status written by update_customer_balance
BalanceStatus(cb, th) ==
    IF cb > th THEN "over_threshold"
    ELSE IF cb < 0 THEN "negative"
    ELSE "normal"

\* variant: only the over_threshold branch raises an alert
CallsCreateAlertOnlyOver(cb, th) == cb > th

\* variant: the normal branch refreshes the alert as well
CallsCreateAlertAlways(cb, th) == TRUE

\* balance_service.py 46-51: the branches that call _create_alert
CallsCreateAlert(cb, th) == cb > th \/ cb < 0

\* variant: the negative branch is missing
ThresholdStatusNoNegative(cb, threshold) ==
    IF cb > threshold THEN "over_threshold" ELSE "normal"

\* main.py 324-329: the status written by update_threshold
ThresholdStatus(cb, threshold) ==
    IF cb > threshold THEN "over_threshold"
    ELSE IF cb < 0 THEN "negative"
    ELSE "normal"

\* variant: the excess is not clamped at 0
ExcessUnclamped(b) == b.current_balance - b.threshold

\* balance_service.py 72, 76
Excess(b) == Max(0, b.current_balance - b.threshold)

\* variant: the excess, not the balance, is compared with 1.5 x threshold
CalculatePriorityByExcess(b) ==
    IF Excess(b) * HIGH_PRIORITY_MULTIPLIER_DEN
          >= b.threshold * HIGH_PRIORITY_MULTIPLIER_NUM
    THEN "high" ELSE "medium"

\* balance_service.py 87-94: current_balance > threshold * 1.5
CalculatePriority(b) ==
    IF b.current_balance * HIGH_PRIORITY_MULTIPLIER_DEN
          > b.threshold * HIGH_PRIORITY_MULTIPLIER_NUM
    THEN "high" ELSE "medium"

\* variant: the lookup does not filter on resolved
UnresolvedAlertsAnyState(als, c, e) ==
    {a \in als : a.customer_name = c /\ a.equipment_type = e}

\* balance_service.py 63-67: the filter of the alert query
UnresolvedAlerts(als, c, e) ==
    {a \in als : a.customer_name = c /\ a.equipment_type = e
                 /\ a.resolved = FALSE}

\* balance_service.py 71-73: update of the existing alert, in place
UpdatedAlert(a, b) ==
    [a EXCEPT !.current_balance = b.current_balance,
              !.excess = Excess(b),
              !.priority = CalculatePriority(b)]

\* balance_service.py 76-84: the alert built by the create branch
NewAlert(id, b) ==
    [id |-> id, customer_name |-> b.customer_name,
     equipment_type |-> b.equipment_type,
     current_balance |-> b.current_balance, threshold |-> b.threshold,
     excess |-> Excess(b), priority |-> CalculatePriority(b),
     resolved |-> FALSE]

NoMovement == [quantity |-> 0]

\* A session of SessionLocal (database.py 13-15, autoflush = False): the
\* movement being applied, the balance row as loaded (NoRow: none found),
\* the balance object in memory, the alerts loaded and changed in memory
\* (identity map), the alerts added but not yet flushed, and the number of
\* direct _create_alert calls made in it.
IdleSession ==
    [pc |-> "idle", mv |-> NoMovement, loaded |-> NoRow, bal |-> NoRow,
     dirty |-> {}, pending |-> <<>>, calls |-> 0]

\* variant: the status is computed before the quantity is added
MutateBalanceStatusFirst(row, m) ==
    [row EXCEPT !.current_balance = @ + SignedQuantity(m),
                !.status = BalanceStatus(row.current_balance, row.threshold)]

\* balance_service.py 37-53 without the alert calls: the in-memory change
MutateBalance(row, m) ==
    LET cb == row.current_balance + SignedQuantity(m)
    IN  [row EXCEPT !.current_balance = cb,
                    !.status = BalanceStatus(cb, row.threshold)]

\* variant: the result of the query is ignored, a row is always created
QueryBalanceAlwaysCreates(sn, bals) ==
    {[sn EXCEPT !.loaded = NoRow,
                !.bal = MutateBalance(NewBalance(0, sn.mv), sn.mv)]}

\* balance_service.py 20-53: query the balance (.first() has no ORDER BY, so
\* any matching row may be returned), create it when absent, mutate it.
\* The result is the set of session states the code can be in afterwards.
QueryBalance(sn, bals) ==
    LET m == sn.mv
        existing == MatchingBalances(bals, m.customer_name, m.equipment_type)
    IN  IF existing = {}
        THEN {[sn EXCEPT !.loaded = NoRow,
                         !.bal = MutateBalance(NewBalance(0, m), m)]}
        ELSE {[sn EXCEPT !.loaded = row, !.bal = MutateBalance(row, m)]
                 : row \in existing}

\* variant: the lookup of an unresolved alert is skipped
CreateAlertAlwaysInserts(sn, als) ==
    {[sn EXCEPT !.pending = Append(@, NewAlert(0, sn.bal))]}

\* balance_service.py 58-85: _create_alert. The query runs against the
\* committed table als (nothing is flushed before it: autoflush = False), a
\* row already loaded in this session comes back as its in-memory object.
CreateAlert(sn, als) ==
    LET b == sn.bal
        existing == UnresolvedAlerts(als, b.customer_name, b.equipment_type)
        known(a) == {d \in sn.dirty : d.loaded.id = a.id}
        entry(a) == IF known(a) = {}
                    THEN [loaded |-> a, obj |-> a]
                    ELSE CHOOSE d \in known(a) : TRUE
    IN  IF existing # {}
        THEN {[sn EXCEPT !.dirty = (@ \ known(a)) \cup
                            {[loaded |-> entry(a).loaded,
                              obj |-> UpdatedAlert(entry(a).obj, b)]}]
                 : a \in existing}
        ELSE {[sn EXCEPT !.pending = Append(@, NewAlert(0, b))]}

\* flush of a loaded balance: UPDATE ... WHERE id sets the columns whose
\* in-memory value differs from the loaded one (threshold is never set here)
WriteBalance(row, loaded, bal) ==
    [row EXCEPT
       !.current_balance = IF bal.current_balance # loaded.current_balance
                           THEN bal.current_balance ELSE @,
       !.status = IF bal.status # loaded.status THEN bal.status ELSE @]

\* flush of a loaded alert: the columns _create_alert changed (71-73)
WriteAlert(row, loaded, obj) ==
    [row EXCEPT
       !.current_balance = IF obj.current_balance # loaded.current_balance
                           THEN obj.current_balance ELSE @,
       !.excess = IF obj.excess # loaded.excess THEN obj.excess ELSE @,
       !.priority = IF obj.priority # loaded.priority THEN obj.priority ELSE @]

\* balance_service.py 55: db.commit() flushes the balance of the session
FlushBalances(bals, sn, id) ==
    IF sn.bal = NoRow THEN bals
    ELSE IF sn.loaded = NoRow THEN bals \cup {[sn.bal EXCEPT !.id = id]}
    ELSE {IF r.id = sn.loaded.id THEN WriteBalance(r, sn.loaded, sn.bal) ELSE r
             : r \in bals}

\* balance_service.py 55: db.commit() flushes the alerts of the session
FlushAlerts(als, sn, id) ==
    LET known(r) == {d \in sn.dirty : d.loaded.id = r.id}
        upd(r) == IF known(r) = {} THEN r
                  ELSE LET d == CHOOSE x \in known(r) : TRUE
                       IN  WriteAlert(r, d.loaded, d.obj)
    IN  {upd(r) : r \in als} \cup
        {[sn.pending[i] EXCEPT !.id = id + i] : i \in 1..Len(sn.pending)}

\* the answer of a photo upload: endpoint, HTTP status, success flag,
\* whether the extraction failed, id of the movement
NoId == <<"none", 0>>

NoResponse ==
    [endpoint |-> "none", status |-> 0, success |-> FALSE,
     extraction_failed |-> FALSE, movement_id |-> NoId]

Response(endpoint, status, success, failed, id) ==
    [endpoint |-> endpoint, status |-> status, success |-> success,
     extraction_failed |-> failed, movement_id |-> id]

\* security.py 49-55: the middleware after __init__; now is the clock that
\* time.time() reads, recorded the history of every recorded request
NewLimiter ==
    [requests |-> [c \in {} |-> <<>>], last_cleanup |-> 0, now |-> 0,
     recorded |-> {}]

\* --------------------------------------------------------------- Init
Init ==
    /\ balances = {}
    /\ alerts = {}
    /\ movements = {}
    /\ nextId = 1
    /\ applied = [p \in Pairs |-> [in |-> 0, out |-> 0]]
    /\ sess = [s \in Sessions |-> IdleSession]
    /\ ops = 0
    /\ response = NoResponse
    /\ runs = <<>>
    /\ customers = {}
    /\ specs = {}
    /\ limiter = NewLimiter
    /\ users = {}
    /\ user_sessions = {}
    /\ tokens = {}
    /\ instructions = {}

\* history of the movements handed to update_customer_balance
Record(m) ==
    [applied EXCEPT ![<<m.customer_name, m.equipment_type>>] =
        IF m.direction = "in" THEN [@ EXCEPT !.in = @ + m.quantity]
        ELSE [@ EXCEPT !.out = @ + m.quantity]]

\* ------------------------------------------- sequential handler calls
\* balance_service.py 15-56: one whole update_customer_balance call, run
\* alone in a fresh session (query, create or reuse, add, status, alert,
\* commit)
UpdateCustomerBalance(m) ==
    \E s1 \in QueryBalance([IdleSession EXCEPT !.mv = m], balances) :
      \E s2 \in (IF CallsCreateAlert(s1.bal.current_balance, s1.bal.threshold)
                 THEN CreateAlert(s1, alerts) ELSE {s1}) :
         /\ balances' = FlushBalances(balances, s2, nextId)
         /\ alerts' = FlushAlerts(alerts, s2, nextId)
         /\ nextId' = nextId + 1 + Len(s2.pending)
         /\ applied' = Record(m)

Apply ==
    /\ ops < MaxOps
    /\ \E m \in Movements : UpdateCustomerBalance(m)
    /\ ops' = ops + 1
    /\ UNCHANGED <<adminVars, limiter, authVars, runs, response, movements, sess>>

\* variant: a threshold change that brings the status back to normal
\* resolves the pair's alerts
UpdateThresholdResolvesAlerts ==
    /\ ops < MaxOps
    /\ \E c \in Customers, e \in EquipmentTypes, threshold \in Thresholds :
         LET found == MatchingBalances(balances, c, e)
         IN  /\ found # {}
             /\ \E row \in found :
                  /\ balances' = (balances \ {row}) \cup
                        {[row EXCEPT !.threshold = threshold,
                                     !.status = ThresholdStatus(row.current_balance,
                                                                threshold)]}
                  /\ alerts' =
                       IF ThresholdStatus(row.current_balance, threshold) = "normal"
                       THEN {IF a.customer_name = c /\ a.equipment_type = e
                             THEN [a EXCEPT !.resolved = TRUE] ELSE a : a \in alerts}
                       ELSE alerts
    /\ ops' = ops + 1
    /\ UNCHANGED <<adminVars, limiter, authVars, runs, response, movements, nextId, applied, sess>>

\* main.py 298-339: PUT /customers/{name}/thresholds/{equipment_type}
UpdateThreshold ==
    /\ ops < MaxOps
    /\ \E c \in Customers, e \in EquipmentTypes, threshold \in Thresholds :
         LET found == MatchingBalances(balances, c, e)
         IN  /\ found # {}
             /\ \E row \in found :
                  balances' = (balances \ {row}) \cup
                     {[row EXCEPT !.threshold = threshold,
                                  !.status = ThresholdStatus(row.current_balance,
                                                             threshold)]}
    /\ ops' = ops + 1
    /\ UNCHANGED <<adminVars, limiter, authVars, runs, response, alerts, movements, nextId, applied, sess>>

\* resolve(alert_id): explicit administrative action setting resolved = true
Resolve ==
    /\ ops < MaxOps
    /\ \E a \in alerts :
         /\ a.resolved = FALSE
         /\ alerts' = (alerts \ {a}) \cup {[a EXCEPT !.resolved = TRUE]}
    /\ ops' = ops + 1
    /\ UNCHANGED <<adminVars, limiter, authVars, runs, response, balances, movements, nextId, applied, sess>>

Next == Apply \/ UpdateThreshold \/ Resolve

Spec == Init /\ [][Next]_vars

\* ------------------------------------- concurrent sessions (SpecConc)
\* a request enters update_customer_balance with movement m
Begin(s) ==
    /\ sess[s].pc = "idle"
    /\ ops < MaxConcApplies
    /\ \E m \in Movements :
         sess' = [sess EXCEPT ![s] = [IdleSession EXCEPT !.pc = "query_balance",
                                                         !.mv = m]]
    /\ ops' = ops + 1
    /\ UNCHANGED <<adminVars, limiter, authVars, runs, response, balances, alerts, movements, nextId, applied>>

\* balance_service.py 20-53 in session s, up to the call of _create_alert
StepQueryBalance(s) ==
    /\ sess[s].pc = "query_balance"
    /\ \E sn \in QueryBalance(sess[s], balances) :
         sess' = [sess EXCEPT ![s] =
                    [sn EXCEPT !.pc =
                       IF CallsCreateAlert(sn.bal.current_balance, sn.bal.threshold)
                       THEN "create_alert" ELSE "commit"]]
    /\ UNCHANGED <<adminVars, limiter, authVars, runs, response, balances, alerts, movements, nextId, applied, ops>>

\* balance_service.py 58-85 in session s
StepCreateAlert(s) ==
    /\ sess[s].pc = "create_alert"
    /\ \E sn \in CreateAlert(sess[s], alerts) :
         sess' = [sess EXCEPT ![s] = [sn EXCEPT !.pc = "commit"]]
    /\ UNCHANGED <<adminVars, limiter, authVars, runs, response, balances, alerts, movements, nextId, applied, ops>>

\* balance_service.py 55 in session s
StepCommit(s) ==
    /\ sess[s].pc = "commit"
    /\ balances' = FlushBalances(balances, sess[s], nextId)
    /\ alerts' = FlushAlerts(alerts, sess[s], nextId)
    /\ nextId' = nextId + 1 + Len(sess[s].pending)
    /\ applied' = Record(sess[s].mv)
    /\ sess' = [sess EXCEPT ![s] = IdleSession]
    /\ UNCHANGED <<adminVars, limiter, authVars, runs, response, movements, ops>>

NextConc ==
    \E s \in Sessions :
       Begin(s) \/ StepQueryBalance(s) \/ StepCreateAlert(s) \/ StepCommit(s)

SpecConc == Init /\ [][NextConc]_vars

\* ------------------------------------------ photo uploads (SpecUpload)
\* what the vision API may return for the direction of a movement
RawDirections == Directions \cup {"sideways"}

\* confidence of an extraction, in hundredths
Confidences == {40, 90}

\* serverless_api.py 805: confidence of the fallback data, in hundredths
FALLBACK_CONFIDENCE == 50

\* ai_service.py 116-124: the JSON parsed from the answer of the API
Extractions ==
    [customer_name : Customers, equipment_type : EquipmentTypes,
     quantity : Quantities, direction : RawDirections,
     confidence : Confidences]

\* the movement described by an extraction
MovementOf(x) ==
    [customer_name |-> x.customer_name, equipment_type |-> x.equipment_type,
     quantity |-> x.quantity, direction |-> x.direction]

\* main.py 102-114, serverless_api.py 669-678: the ledger row stored
MovementRow(id, m, conf) ==
    [movement_id |-> id, customer_name |-> m.customer_name,
     equipment_type |-> m.equipment_type, quantity |-> m.quantity,
     direction |-> m.direction, confidence_score |-> conf,
     verified |-> FALSE]

\* serverless_api.py 798-808: the data returned when extraction fails
FallbackMovement ==
    [customer_name |-> "Unknown Customer", equipment_type |-> "container",
     quantity |-> 1, direction |-> "out"]

\* ai_service.py 130: mov_<timestamp>_<index>; two extractions at the same
\* timestamp get the same id, so the id is fresh or one already stored
MovementIds ==
    {<<"mov", nextId>>} \cup
    {r.movement_id : r \in {x \in movements : x.movement_id[1] = "mov"}}

StoredIds == {r.movement_id : r \in movements}

\* ai_service.py 126-162: the extraction fails when the API call or the
\* parsing raises, and when Direction(...) rejects the direction
ExtractionFails(failed, x) == failed \/ x.direction \notin Directions

\* variant: the movement row is committed on its own before the balance
\* update, so it survives a failing commit of the update
UploadPhotoRowFirst(failed, x, id, dbok) ==
    IF ExtractionFails(failed, x)
    THEN /\ response' = Response("upload-photo", 200, FALSE, TRUE, NoId)
         /\ UNCHANGED <<adminVars, limiter, authVars, runs, balances, alerts, movements, nextId, applied>>
    ELSE IF id \in StoredIds
    THEN /\ response' = Response("upload-photo", 500, FALSE, FALSE, id)
         /\ UNCHANGED <<adminVars, limiter, authVars, runs, balances, alerts, movements, nextId, applied>>
    ELSE IF ~dbok
    THEN /\ response' = Response("upload-photo", 500, FALSE, FALSE, id)
         /\ movements' = movements \cup
                            {MovementRow(id, MovementOf(x), x.confidence)}
         /\ UNCHANGED <<adminVars, limiter, authVars, runs, balances, alerts, nextId, applied>>
    ELSE /\ response' = Response("upload-photo", 200, TRUE, FALSE, id)
         /\ movements' = movements \cup
                            {MovementRow(id, MovementOf(x), x.confidence)}
         /\ UpdateCustomerBalance(MovementOf(x))

\* variant: movement_id is not a key, a stored id is accepted again
UploadPhotoNoKey(failed, x, id, dbok) ==
    IF ExtractionFails(failed, x)
    THEN /\ response' = Response("upload-photo", 200, FALSE, TRUE, NoId)
         /\ UNCHANGED <<adminVars, limiter, authVars, runs, balances, alerts, movements, nextId, applied>>
    ELSE IF ~dbok
    THEN /\ response' = Response("upload-photo", 500, FALSE, FALSE, id)
         /\ UNCHANGED <<adminVars, limiter, authVars, runs, balances, alerts, movements, nextId, applied>>
    ELSE /\ response' = Response("upload-photo", 200, TRUE, FALSE, id)
         /\ movements' = movements \cup
                            {MovementRow(id, MovementOf(x), x.confidence)}
         /\ UpdateCustomerBalance(MovementOf(x))

\* main.py 73-122: POST /upload-photo for a photo whose extraction yields
\* one movement x with id id. A failed extraction returns success = False
\* and stores nothing (96). Otherwise the movement row is added to the
\* session (115) and update_customer_balance commits row, balance and
\* alert in one transaction (118); when that commit raises (movement_id is
\* the primary key of the ledger, database.py 35, or the database fails)
\* the exception leaves the handler and the session is rolled back.
UploadPhotoWith(failed, x, id, dbok) ==
    IF ExtractionFails(failed, x)
    THEN /\ response' = Response("upload-photo", 200, FALSE, TRUE, NoId)
         /\ UNCHANGED <<adminVars, limiter, authVars, runs, balances, alerts, movements, nextId, applied>>
    ELSE IF id \in StoredIds \/ ~dbok
    THEN /\ response' = Response("upload-photo", 500, FALSE, FALSE, id)
         /\ UNCHANGED <<adminVars, limiter, authVars, runs, balances, alerts, movements, nextId, applied>>
    ELSE /\ response' = Response("upload-photo", 200, TRUE, FALSE, id)
         /\ movements' = movements \cup
                            {MovementRow(id, MovementOf(x), x.confidence)}
         /\ UpdateCustomerBalance(MovementOf(x))

\* POST /upload-photo. The loop of main.py 100-118 commits inside each
\* update_customer_balance call, so a photo of several movements acts on
\* the store as that many uploads of one movement in a row.
UploadPhoto ==
    /\ ops < MaxUploads
    /\ \E failed \in BOOLEAN, x \in Extractions, id \in MovementIds,
          dbok \in BOOLEAN :
         UploadPhotoWith(failed, x, id, dbok)
    /\ ops' = ops + 1
    /\ UNCHANGED <<adminVars, limiter, authVars, runs, sess>>

\* serverless_api.py 648-704: POST /photos/upload stores the movement (the
\* extracted one as returned, or the fallback when extraction fails) under
\* a fresh uuid and commits; it touches neither customer_balances nor
\* alerts. An exception of the commit is caught and reported (703-704).
ServerlessUploadPhoto ==
    /\ ops < MaxUploads
    /\ \E failed \in BOOLEAN, x \in Extractions, dbok \in BOOLEAN :
         LET id  == <<"uuid", nextId>>
             row == IF failed
                    THEN MovementRow(id, FallbackMovement, FALLBACK_CONFIDENCE)
                    ELSE MovementRow(id, MovementOf(x), x.confidence)
         IN  IF dbok
             THEN /\ movements' = movements \cup {row}
                  /\ nextId' = nextId + 1
                  /\ response' = Response("photos/upload", 200, TRUE, failed, id)
             ELSE /\ UNCHANGED <<adminVars, limiter, authVars, runs, movements, nextId>>
                  /\ response' = Response("photos/upload", 200, FALSE, failed, NoId)
    /\ ops' = ops + 1
    /\ UNCHANGED <<adminVars, limiter, authVars, runs, balances, alerts, applied, sess>>

NextUpload == UploadPhoto \/ ServerlessUploadPhoto

SpecUpload == Init /\ [][NextUpload]_vars

\* ------------------------- direct calls of _create_alert (SpecUpsert)
SetupApply == ops < MaxSetupOps /\ Apply

SetupUpdateThreshold == ops < MaxSetupOps /\ UpdateThreshold

SetupResolve == ops < MaxSetupOps /\ Resolve

\* a caller loads a balance whose status is over_threshold or negative
UpsertBegin ==
    /\ sess["s1"].pc = "idle"
    /\ \E row \in balances :
         /\ row.status \in {"over_threshold", "negative"}
         /\ sess' = [sess EXCEPT !["s1"] =
                       [IdleSession EXCEPT !.pc = "calling", !.loaded = row,
                                           !.bal = row]]
    /\ UNCHANGED <<adminVars, limiter, authVars, runs, response, balances, alerts, movements, nextId, applied, ops>>

\* balance_service.py 58-85: one call of _create_alert(balance)
UpsertCall ==
    /\ sess["s1"].pc = "calling"
    /\ sess["s1"].calls < MaxCalls
    /\ \E sn \in CreateAlert(sess["s1"], alerts) :
         sess' = [sess EXCEPT !["s1"] = [sn EXCEPT !.calls = @ + 1]]
    /\ UNCHANGED <<adminVars, limiter, authVars, runs, response, balances, alerts, movements, nextId, applied, ops>>

\* the caller commits the session
UpsertCommit ==
    /\ sess["s1"].pc = "calling"
    /\ sess["s1"].calls >= 1
    /\ balances' = FlushBalances(balances, sess["s1"], nextId)
    /\ alerts' = FlushAlerts(alerts, sess["s1"], nextId)
    /\ nextId' = nextId + 1 + Len(sess["s1"].pending)
    /\ sess' = [sess EXCEPT !["s1"] =
                  [IdleSession EXCEPT !.pc = "done", !.bal = sess["s1"].bal,
                                      !.calls = sess["s1"].calls]]
    /\ UNCHANGED <<adminVars, limiter, authVars, runs, response, movements, applied, ops>>

NextUpsert ==
    \/ SetupApply \/ SetupUpdateThreshold \/ SetupResolve
    \/ UpsertBegin \/ UpsertCall \/ UpsertCommit

SpecUpsert == Init /\ [][NextUpsert]_vars

\* ------------------------------ orders of a batch of movements (SpecOrder)
BatchLengths == {2, 3}

\* the store one update_customer_balance call works on
Store(bals, als, id) == [balances |-> bals, alerts |-> als, nextId |-> id]

\* balance_service.py 15-56: the stores one whole call for m can leave
ApplyOne(st, m) ==
    UNION {
      { Store(FlushBalances(st.balances, s2, st.nextId),
              FlushAlerts(st.alerts, s2, st.nextId),
              st.nextId + 1 + Len(s2.pending))
          : s2 \in (IF CallsCreateAlert(s1.bal.current_balance, s1.bal.threshold)
                    THEN CreateAlert(s1, st.alerts) ELSE {s1}) }
      : s1 \in QueryBalance([IdleSession EXCEPT !.mv = m], st.balances) }

RECURSIVE ApplySeq(_, _)
\* the calls for the movements of seq, one at a time, in that order
ApplySeq(sts, seq) ==
    IF seq = <<>> THEN sts
    ELSE ApplySeq(UNION {ApplyOne(st, Head(seq)) : st \in sts}, Tail(seq))

\* the starting states of SpecOrder: the first movement of the store
OrderSeed == runs = <<>> /\ balances = {} /\ Apply

\* ... and one threshold change of its row
OrderThreshold ==
    /\ runs = <<>>
    /\ \A b \in balances : b.threshold = DEFAULT_THRESHOLD
    /\ UpdateThreshold

\* a batch of movements of one pair is applied to the current store in two
\* orders; runs records each order with the balance row it ends with
OrderRun ==
    /\ runs = <<>>
    /\ \E p \in Pairs, n \in BatchLengths :
         \E seq \in [1..n -> {m \in Movements :
                                 m.customer_name = p[1] /\ m.equipment_type = p[2]}],
            perm \in Permutations(1..n) :
           LET other == [i \in 1..n |-> seq[perm[i]]]
               cur   == {Store(balances, alerts, nextId)}
               row(st) == CHOOSE b \in MatchingBalances(st.balances, p[1], p[2]) : TRUE
           IN  \E a \in ApplySeq(cur, seq), b \in ApplySeq(cur, other) :
                  runs' = << [order |-> seq, balance |-> row(a)],
                             [order |-> other, balance |-> row(b)] >>
    /\ UNCHANGED <<adminVars, limiter, authVars, balances, alerts, movements,
                   nextId, applied, sess, ops, response>>

NextOrder == OrderSeed \/ OrderThreshold \/ OrderRun

SpecOrder == Init /\ [][NextOrder]_vars

\* ------------------- customers and equipment specifications (SpecAdmin)
SpecThresholds == {10, 50}

\* the photos of SpecAdmin: one readable delivery note per pair
AdminExtractions ==
    {x \in Extractions :
        x.quantity = 8 /\ x.direction = "in" /\ x.confidence = 90}

\* database.py 52-56: a row of customers
CustomerRow(id, name) == [id |-> id, customer_name |-> name]

\* database.py 17-28: a row of equipment_specifications
SpecificationRow(id, e, t) ==
    [id |-> id, equipment_type |-> e, default_threshold |-> t,
     is_active |-> TRUE]

\* the path parameter of a request: a stored id or one that is not stored
IdsOf(rows) == {r.id : r \in rows} \cup {0}

\* what a customer or specification handler returns
Reply(endpoint, error, balances_count, movements_count) ==
    [endpoint |-> endpoint, error |-> error,
     balances_count |-> balances_count,
     movements_count |-> movements_count]

\* main.py 714 / serverless_api.py 498: the balance rows of a customer name
BalancesCount(name) ==
    Cardinality({b \in balances : b.customer_name = name})

\* main.py 715 / serverless_api.py 499: the ledger rows of a customer name
MovementsCount(name) ==
    Cardinality({r \in movements : r.customer_name = name})

\* main.py 611-656: POST /customers; customer_name is unique, so the commit
\* of a second row of the same name raises and is rolled back
CreateCustomer ==
    /\ ops < MaxAdminOps
    /\ \E name \in Customers :
         IF \E c \in customers : c.customer_name = name
         THEN /\ response' = Reply("create-customer", TRUE, 0, 0)
              /\ UNCHANGED <<customers, nextId>>
         ELSE /\ customers' = customers \cup {CustomerRow(nextId, name)}
              /\ nextId' = nextId + 1
              /\ response' = Reply("create-customer", FALSE, 0, 0)
    /\ ops' = ops + 1
    /\ UNCHANGED <<specs, limiter, authVars, runs, balances, alerts,
                   movements, applied, sess>>

\* main.py 658-698: PUT /customers/{customer_id} with a customer_name in the
\* body; only the customers row is written
UpdateCustomer ==
    /\ ops < MaxAdminOps
    /\ \E id \in IdsOf(customers), name \in Customers :
         LET found == {c \in customers : c.id = id}
         IN  IF found = {}
                \/ \E c \in customers : c.id # id /\ c.customer_name = name
             THEN /\ response' = Reply("update-customer", TRUE, 0, 0)
                  /\ UNCHANGED customers
             ELSE /\ customers' = (customers \ found) \cup {CustomerRow(id, name)}
                  /\ response' = Reply("update-customer", FALSE, 0, 0)
    /\ ops' = ops + 1
    /\ UNCHANGED <<specs, limiter, authVars, runs, balances, alerts,
                   movements, nextId, applied, sess>>

\* variant: only the balance rows block the deletion
DeleteCustomerIgnoresLedger ==
    /\ ops < MaxAdminOps
    /\ \E id \in IdsOf(customers) :
         LET found == {c \in customers : c.id = id}
         IN  IF found = {}
             THEN /\ response' = Reply("delete-customer", TRUE, 0, 0)
                  /\ UNCHANGED customers
             ELSE \E c \in found :
                  IF BalancesCount(c.customer_name) > 0
                  THEN /\ response' = Reply("delete-customer", TRUE,
                                            BalancesCount(c.customer_name),
                                            MovementsCount(c.customer_name))
                       /\ UNCHANGED customers
                  ELSE /\ customers' = customers \ {c}
                       /\ response' = Reply("delete-customer", FALSE, 0, 0)
    /\ ops' = ops + 1
    /\ UNCHANGED <<specs, limiter, authVars, runs, balances, alerts,
                   movements, nextId, applied, sess>>

\* main.py 700-724 and serverless_api.py 484-508: DELETE /customers/{id}
DeleteCustomer ==
    /\ ops < MaxAdminOps
    /\ \E id \in IdsOf(customers) :
         LET found == {c \in customers : c.id = id}
         IN  IF found = {}
             THEN /\ response' = Reply("delete-customer", TRUE, 0, 0)
                  /\ UNCHANGED customers
             ELSE \E c \in found :
                  IF BalancesCount(c.customer_name) > 0
                     \/ MovementsCount(c.customer_name) > 0
                  THEN /\ response' = Reply("delete-customer", TRUE,
                                            BalancesCount(c.customer_name),
                                            MovementsCount(c.customer_name))
                       /\ UNCHANGED customers
                  ELSE /\ customers' = customers \ {c}
                       /\ response' = Reply("delete-customer", FALSE, 0, 0)
    /\ ops' = ops + 1
    /\ UNCHANGED <<specs, limiter, authVars, runs, balances, alerts,
                   movements, nextId, applied, sess>>

\* main.py 393-414: POST /equipment-specifications
CreateSpecification ==
    /\ ops < MaxAdminOps
    /\ \E e \in EquipmentTypes, t \in SpecThresholds :
         specs' = specs \cup {SpecificationRow(nextId, e, t)}
    /\ nextId' = nextId + 1
    /\ response' = Reply("create-specification", FALSE, 0, 0)
    /\ ops' = ops + 1
    /\ UNCHANGED <<customers, limiter, authVars, runs, balances, alerts,
                   movements, applied, sess>>

\* main.py 451-466: DELETE /equipment-specifications/{spec_id}; the row is
\* deactivated whether or not a balance row uses its equipment type
DeleteSpecification ==
    /\ ops < MaxAdminOps
    /\ \E id \in IdsOf(specs) :
         LET found == {x \in specs : x.id = id}
         IN  IF found = {}
             THEN /\ response' = Reply("delete-specification", TRUE, 0, 0)
                  /\ UNCHANGED specs
             ELSE /\ specs' = (specs \ found) \cup
                                 {[x EXCEPT !.is_active = FALSE] : x \in found}
                  /\ response' = Reply("delete-specification", FALSE, 0, 0)
    /\ ops' = ops + 1
    /\ UNCHANGED <<customers, limiter, authVars, runs, balances, alerts,
                   movements, nextId, applied, sess>>

\* serverless_api.py 622-645: the same route of the serverless API; it
\* refuses while a balance row uses the type and deletes the row otherwise
ServerlessDeleteSpecification ==
    /\ ops < MaxAdminOps
    /\ \E id \in IdsOf(specs) :
         LET found == {x \in specs : x.id = id}
         IN  IF found = {}
             THEN /\ response' = Reply("delete-specification", TRUE, 0, 0)
                  /\ UNCHANGED specs
             ELSE \E x \in found :
                  LET n == Cardinality({b \in balances :
                                           b.equipment_type = x.equipment_type})
                  IN  IF n > 0
                      THEN /\ response' = Reply("delete-specification", TRUE, n, 0)
                           /\ UNCHANGED specs
                      ELSE /\ specs' = specs \ {x}
                           /\ response' = Reply("delete-specification", FALSE, 0, 0)
    /\ ops' = ops + 1
    /\ UNCHANGED <<customers, limiter, authVars, runs, balances, alerts,
                   movements, nextId, applied, sess>>

\* main.py 73-122 on a readable photo
AdminUploadPhoto ==
    /\ ops < MaxAdminOps
    /\ \E x \in AdminExtractions :
         UploadPhotoWith(FALSE, x, <<"mov", nextId>>, TRUE)
    /\ ops' = ops + 1
    /\ UNCHANGED <<adminVars, limiter, authVars, runs, sess>>

\* serverless_api.py 648-704 on a readable photo: the ledger row alone
AdminServerlessUploadPhoto ==
    /\ ops < MaxAdminOps
    /\ \E x \in AdminExtractions :
         /\ movements' = movements \cup
               {MovementRow(<<"uuid", nextId>>, MovementOf(x), x.confidence)}
         /\ response' = Response("photos/upload", 200, TRUE, FALSE,
                                 <<"uuid", nextId>>)
    /\ nextId' = nextId + 1
    /\ ops' = ops + 1
    /\ UNCHANGED <<adminVars, limiter, authVars, runs, balances, alerts,
                   applied, sess>>

NextAdmin ==
    \/ CreateCustomer
    \/ UpdateCustomer
    \/ DeleteCustomer
    \/ CreateSpecification
    \/ DeleteSpecification
    \/ ServerlessDeleteSpecification
    \/ AdminUploadPhoto
    \/ AdminServerlessUploadPhoto

SpecAdmin == Init /\ [][NextAdmin]_vars

\* --------------------------------------- RateLimitMiddleware (SpecLimiter)
\* security.py 49: the parameters of the constructor. The application
\* passes 60 and 10 (main.py 53); the middleware is instantiated here with
\* limits small enough for both to be reached.
requests_per_minute == 3
burst_size == 2

\* security.py 82, 89, 53: the windows, in seconds
MINUTE == 60
BURST_WINDOW == 10
cleanup_interval == 60

Clients == {"ip1", "ip2"}

\* seconds between the arrival of one request and the next
Elapsed == {0, 10, 11, 50}

RECURSIVE PopOld(_, _)
\* security.py 82-83, 109-110: popleft while the oldest entry is too old
PopOld(q, now) ==
    IF q # <<>> /\ Head(q) < now - MINUTE THEN PopOld(Tail(q), now) ELSE q

\* security.py 101-119: cleanup_old_entries at time now
CleanupOldEntries(lim, now) ==
    IF now - lim.last_cleanup > cleanup_interval
    THEN LET kept == {c \in DOMAIN lim.requests :
                         PopOld(lim.requests[c], now) # <<>>}
         IN  [lim EXCEPT !.requests = [c \in kept |-> PopOld(lim.requests[c], now)],
                         !.last_cleanup = now]
    ELSE lim

\* security.py 79: self.requests[client_id] of the defaultdict, pruned (82-83)
ClientRequests(lim, c, now) ==
    IF c \in DOMAIN lim.requests THEN PopOld(lim.requests[c], now) ELSE <<>>

\* variant: the limit is passed only when the count exceeds it
IsRateLimitedOffByOne(q, now) ==
    \/ Len(q) > requests_per_minute
    \/ Cardinality({i \in 1..Len(q) : q[i] > now - BURST_WINDOW}) >= burst_size

\* security.py 85-94: the two checks of is_rate_limited on the pruned deque
IsRateLimited(q, now) ==
    \/ Len(q) >= requests_per_minute
    \/ Cardinality({i \in 1..Len(q) : q[i] > now - BURST_WINDOW}) >= burst_size

\* security.py 121-147: dispatch of one request of client c that arrives d
\* seconds after the previous one. The clock is read once per request:
\* the reads of cleanup, check and record are the same instant.
Dispatch ==
    /\ ops < MaxDispatches
    /\ \E c \in Clients, d \in Elapsed :
         LET now == limiter.now + d
             cleaned == CleanupOldEntries(limiter, now)
             q == ClientRequests(cleaned, c, now)
             with(r) == [x \in DOMAIN cleaned.requests \cup {c} |->
                            IF x = c THEN r ELSE cleaned.requests[x]]
         IN  IF IsRateLimited(q, now)
             THEN /\ limiter' = [cleaned EXCEPT !.requests = with(q),
                                                !.now = now]
                  /\ response' = [endpoint |-> "dispatch", status |-> 429,
                                  client |-> c, now |-> now]
             ELSE /\ limiter' = [cleaned EXCEPT
                                   !.requests = with(Append(q, now)),
                                   !.now = now,
                                   !.recorded = @ \cup
                                      {[client |-> c, time |-> now, n |-> ops]}]
                  /\ response' = [endpoint |-> "dispatch", status |-> 200,
                                  client |-> c, now |-> now]
    /\ ops' = ops + 1
    /\ UNCHANGED <<adminVars, authVars, runs, balances, alerts, movements,
                   nextId, applied, sess>>

NextLimiter == Dispatch

SpecLimiter == Init /\ [][NextLimiter]_vars

\* ------------------------------ users, tokens and instructions (SpecAuth)
Usernames == {"u1", "u2", "u3"}

\* auth_models.py 12-16
Roles == {"viewer", "driver", "manager", "admin"}

Passwords == {"pw1", "pw2"}

InstructionStatuses == {"in_progress", "completed"}

\* auth_service.py 276-281: role_hierarchy
RoleLevel(role) ==
    CASE role = "viewer" -> 1
      [] role = "driver" -> 2
      [] role = "manager" -> 3
      [] role = "admin" -> 4
      [] OTHER -> 0

\* auth_service.py 274-286
HasPermission(user, required_role) ==
    RoleLevel(user.role) >= RoleLevel(required_role)

\* auth_service.py 96-113: jwt.decode accepts a token signed with the key
\* whose exp has not passed; nothing stored is read
VerifyToken(t) == ~t.expired

\* auth_dependencies.py 21-56: the users get_current_active_user returns
\* for bearer token t; empty when the request is answered 401
CurrentUser(t) ==
    IF VerifyToken(t)
    THEN {u \in users : u.id = t.user_id /\ u.is_active}
    ELSE {}

\* main.py 939-942: the refusal of update_instruction_status
Refused(user, instruction) ==
    /\ user.role = "driver"
    /\ instruction.assigned_driver # user.username

\* auth_service.py 35-58 behind POST /auth/register
CreateUser ==
    /\ ops < MaxAuthOps
    /\ \E name \in Usernames, role \in Roles :
         IF \E u \in users : u.username = name
         THEN /\ response' = [endpoint |-> "auth/register", status |-> 400]
              /\ UNCHANGED <<users, nextId>>
         ELSE /\ users' = users \cup
                    {[id |-> nextId, username |-> name, role |-> role,
                      is_active |-> TRUE, hashed_password |-> "pw1"]}
              /\ nextId' = nextId + 1
              /\ response' = [endpoint |-> "auth/register", status |-> 200]
    /\ ops' = ops + 1
    /\ UNCHANGED <<adminVars, limiter, user_sessions, tokens, instructions,
                   runs, balances, alerts, movements, applied, sess>>

\* auth.py 37-80: POST /auth/login issues a token and stores a session
Login ==
    /\ ops < MaxAuthOps
    /\ \E name \in Usernames, password \in Passwords :
         LET found == {u \in users : /\ u.username = name
                                     /\ u.hashed_password = password
                                     /\ u.is_active}
         IN  IF found = {}
             THEN /\ response' = [endpoint |-> "auth/login", status |-> 401]
                  /\ UNCHANGED <<tokens, user_sessions, nextId>>
             ELSE \E u \in found :
                  /\ tokens' = tokens \cup
                        {[n |-> nextId, user_id |-> u.id, username |-> u.username,
                          role |-> u.role, expired |-> FALSE,
                          revoked_since |-> FALSE]}
                  /\ user_sessions' = user_sessions \cup
                        {[id |-> nextId + 1, user_id |-> u.id, is_active |-> TRUE]}
                  /\ nextId' = nextId + 2
                  /\ response' = [endpoint |-> "auth/login", status |-> 200]
    /\ ops' = ops + 1
    /\ UNCHANGED <<adminVars, limiter, users, instructions, runs, balances,
                   alerts, movements, applied, sess>>

\* auth_service.py 159-174: revoke_all_user_sessions
RevokeAllUserSessions(user_id) ==
    {IF x.user_id = user_id THEN [x EXCEPT !.is_active = FALSE] ELSE x
       : x \in user_sessions}

\* history: the tokens of the user were issued before this point
MarkRevoked(user_id) ==
    {IF t.user_id = user_id THEN [t EXCEPT !.revoked_since = TRUE] ELSE t
       : t \in tokens}

\* auth.py 82-89: POST /auth/logout with bearer token t
Logout ==
    /\ ops < MaxAuthOps
    /\ \E t \in tokens :
         IF CurrentUser(t) = {}
         THEN /\ response' = [endpoint |-> "auth/logout", status |-> 401]
              /\ UNCHANGED <<user_sessions, tokens>>
         ELSE \E u \in CurrentUser(t) :
              /\ user_sessions' = RevokeAllUserSessions(u.id)
              /\ tokens' = MarkRevoked(u.id)
              /\ response' = [endpoint |-> "auth/logout", status |-> 200]
    /\ ops' = ops + 1
    /\ UNCHANGED <<adminVars, limiter, users, instructions, runs, balances,
                   alerts, movements, nextId, applied, sess>>

\* auth.py 122-142 and auth_service.py 189-205: POST /auth/change-password
ChangePassword ==
    /\ ops < MaxAuthOps
    /\ \E t \in tokens, current \in Passwords, new \in Passwords :
         IF CurrentUser(t) = {}
         THEN /\ response' = [endpoint |-> "auth/change-password", status |-> 401]
              /\ UNCHANGED <<users, user_sessions, tokens>>
         ELSE \E u \in CurrentUser(t) :
              IF u.hashed_password # current
              THEN /\ response' = [endpoint |-> "auth/change-password",
                                   status |-> 400]
                   /\ UNCHANGED <<users, user_sessions, tokens>>
              ELSE /\ users' = (users \ {u}) \cup
                                  {[u EXCEPT !.hashed_password = new]}
                   /\ user_sessions' = RevokeAllUserSessions(u.id)
                   /\ tokens' = MarkRevoked(u.id)
                   /\ response' = [endpoint |-> "auth/change-password",
                                   status |-> 200]
    /\ ops' = ops + 1
    /\ UNCHANGED <<adminVars, limiter, instructions, runs, balances, alerts,
                   movements, nextId, applied, sess>>

\* auth.py 91-96: GET /auth/me with bearer token t
GetCurrentUser ==
    /\ ops < MaxAuthOps
    /\ \E t \in tokens :
         response' = [endpoint |-> "auth/me",
                      status |-> IF CurrentUser(t) = {} THEN 401 ELSE 200,
                      token |-> t.n]
    /\ ops' = ops + 1
    /\ UNCHANGED <<adminVars, limiter, authVars, runs, balances, alerts,
                   movements, nextId, applied, sess>>

\* auth_service.py 85-94: the exp of a token passes
Expire ==
    /\ ops < MaxAuthOps
    /\ \E t \in tokens :
         /\ ~t.expired
         /\ tokens' = (tokens \ {t}) \cup {[t EXCEPT !.expired = TRUE]}
    /\ ops' = ops + 1
    /\ UNCHANGED <<adminVars, limiter, users, user_sessions, instructions,
                   runs, response, balances, alerts, movements, nextId,
                   applied, sess>>

\* main.py 730-777: POST /driver-instructions with bearer token t, behind
\* require_manager (auth_dependencies.py 58-72)
CreateDriverInstruction ==
    /\ ops < MaxAuthOps
    /\ \E t \in tokens, driver \in Usernames :
         LET reply(code) == [endpoint |-> "driver-instructions",
                             status |-> code]
         IN  IF CurrentUser(t) = {}
             THEN response' = reply(401) /\ UNCHANGED <<instructions, nextId>>
             ELSE \E u \in CurrentUser(t) :
                  IF ~HasPermission(u, "manager")
                  THEN response' = reply(403)
                       /\ UNCHANGED <<instructions, nextId>>
                  ELSE /\ instructions' = instructions \cup
                             {[id |-> nextId, assigned_driver |-> driver,
                               status |-> "pending"]}
                       /\ nextId' = nextId + 1
                       /\ response' = reply(200)
    /\ ops' = ops + 1
    /\ UNCHANGED <<adminVars, limiter, users, user_sessions, tokens, runs,
                   balances, alerts, movements, applied, sess>>

\* main.py 925-948: PATCH /driver-instructions/{instruction_id}/status
UpdateInstructionStatus ==
    /\ ops < MaxAuthOps
    /\ \E t \in tokens, id \in IdsOf(instructions),
          status \in InstructionStatuses :
         LET found == {i \in instructions : i.id = id}
             reply(code) == [endpoint |-> "driver-instructions/status",
                             status |-> code]
         IN  IF CurrentUser(t) = {}
             THEN response' = reply(401) /\ UNCHANGED instructions
             ELSE IF found = {}
             THEN response' = reply(404) /\ UNCHANGED instructions
             ELSE \E u \in CurrentUser(t), i \in found :
                  IF Refused(u, i)
                  THEN response' = reply(403) /\ UNCHANGED instructions
                  ELSE /\ instructions' = (instructions \ {i}) \cup
                                             {[i EXCEPT !.status = status]}
                       /\ response' = reply(200)
    /\ ops' = ops + 1
    /\ UNCHANGED <<adminVars, limiter, users, user_sessions, tokens, runs,
                   balances, alerts, movements, nextId, applied, sess>>

NextAuth ==
    \/ CreateUser
    \/ Login
    \/ Logout
    \/ ChangePassword
    \/ GetCurrentUser
    \/ Expire
    \/ CreateDriverInstruction
    \/ UpdateInstructionStatus

SpecAuth == Init /\ [][NextAuth]_vars

\* =============================================================== claims
\* the balance rows of a pair
RowsOf(p) == MatchingBalances(balances, p[1], p[2])

\* the unresolved alerts of a pair
OpenAlertsOf(p) == UnresolvedAlerts(alerts, p[1], p[2])

PairOf(r) == <<r.customer_name, r.equipment_type>>

\* C1: after any sequence of update_customer_balance calls run one at a
\* time from the empty store, the balance row of every pair holds the sum
\* of the applied 'in' quantities minus the sum of the applied 'out'
\* quantities of that pair (and a pair without a row had nothing applied).
C1_BalanceIsSignedSum ==
    \A p \in Pairs :
       /\ \A b \in RowsOf(p) :
             b.current_balance = applied[p].in - applied[p].out
       /\ RowsOf(p) = {} => applied[p] = [in |-> 0, out |-> 0]

\* a pair that received both directions and holds their difference
C1_Witness ==
    \E p \in Pairs : \E b \in RowsOf(p) :
       /\ applied[p].in = 30 /\ applied[p].out = 8
       /\ b.current_balance = 22

RECURSIVE SumSigned(_)
\* signed sum (in: +quantity, out: -quantity) of a set of ledger rows
SumSigned(rows) ==
    IF rows = {} THEN 0
    ELSE LET r == CHOOSE x \in rows : TRUE
         IN  (IF r.direction = "in" THEN r.quantity ELSE 0 - r.quantity)
               + SumSigned(rows \ {r})

LedgerRows(c, e) ==
    {r \in movements : r.customer_name = c /\ r.equipment_type = e}

\* C2: in every committed state the current_balance of each pair equals
\* the signed sum of the Movement rows the photo-upload endpoints stored in
\* the ledger for that pair (no row counts as balance 0).
C2_LedgerMatchesBalance ==
    \A r \in movements :
       LET rows == MatchingBalances(balances, r.customer_name, r.equipment_type)
           total == SumSigned(LedgerRows(r.customer_name, r.equipment_type))
       IN  /\ \A b \in rows : b.current_balance = total
           /\ rows = {} => total = 0

\* C3: run one at a time, apply and update_threshold keep at most one
\* balance row per pair; no row is ever deleted or moved to another pair,
\* and a new row appears only in an apply for a pair that had none.
C3_OneBalanceRowPerPair ==
    [][ /\ \A p \in Pairs : Cardinality(MatchingBalances(balances', p[1], p[2])) <= 1
        /\ \A b \in balances : \E n \in balances' :
              n.id = b.id /\ PairOf(n) = PairOf(b)
        /\ \A n \in balances' :
              (\A b \in balances : b.id # n.id) =>
                 /\ RowsOf(PairOf(n)) = {}
                 /\ applied'[PairOf(n)] # applied[PairOf(n)]
      ]_vars

\* a row reused by a second apply and by a threshold update
C3_Witness ==
    \E b \in balances :
       /\ b.current_balance = 38
       /\ b.threshold = 25
       /\ Cardinality(RowsOf(PairOf(b))) = 1

\* C4: run one at a time, apply, update_threshold and resolve leave at
\* most one alert with resolved = false per pair.
C4_OneOpenAlertPerPair ==
    \A p \in Pairs : Cardinality(OpenAlertsOf(p)) <= 1

\* a pair with a resolved alert and a newer unresolved one
C4_Witness ==
    \E a \in alerts, n \in alerts :
       /\ PairOf(a) = PairOf(n)
       /\ a.resolved /\ ~n.resolved

AllIdle == \A s \in Sessions : sess[s].pc = "idle"

\* C5: once the concurrent applies have committed, the single balance row
\* of a pair reflects every movement applied to it (no lost update).
C5_NoLostUpdate ==
    AllIdle =>
       \A p \in Pairs :
          Cardinality(RowsOf(p)) = 1 =>
             \A b \in RowsOf(p) :
                b.current_balance = applied[p].in - applied[p].out

\* C6: no interleaving of concurrent applies ends with two balance rows
\* for the same pair.
C6_NoDuplicateBalanceRow ==
    \A p \in Pairs : Cardinality(RowsOf(p)) <= 1

\* C7: no interleaving of concurrent applies on a pair (with its one
\* balance row) ends with two unresolved alerts for that pair.
C7_NoDuplicateOpenAlert ==
    \A p \in Pairs :
       Cardinality(RowsOf(p)) <= 1 => Cardinality(OpenAlertsOf(p)) <= 1

\* C8: in every state reachable by apply and update_threshold the stored
\* status of each balance row is over_threshold if current_balance >
\* threshold, else negative if current_balance < 0, else normal.
C8_StatusMatchesFormula ==
    \A b \in balances :
       /\ b.current_balance > b.threshold => b.status = "over_threshold"
       /\ (b.current_balance <= b.threshold /\ b.current_balance < 0)
             => b.status = "negative"
       /\ (b.current_balance <= b.threshold /\ b.current_balance >= 0)
             => b.status = "normal"

\* a row that two applies left over its threshold and a threshold change
\* brought back to normal
C8_Witness ==
    \E b \in balances :
       /\ applied[PairOf(b)] = [in |-> 30, out |-> 8]
       /\ b.current_balance = 22 /\ b.threshold = 25 /\ b.status = "normal"

\* the unresolved alerts a step wrote (created or changed)
WrittenAlerts == {a \in alerts' : a \notin alerts /\ ~a.resolved}

\* C9 as stated: every alert written by upsert_alert has priority high
\* exactly when excess >= 1.5 x threshold of the balance passed, and
\* medium otherwise.
C9_PriorityByExcess ==
    [][ \A a \in WrittenAlerts :
           \A b \in MatchingBalances(balances', a.customer_name, a.equipment_type) :
              /\ a.priority \in {"high", "medium"}
              /\ (a.priority = "high") <=> (2 * a.excess >= 3 * b.threshold)
      ]_vars

\* C9 amended: every alert written by upsert_alert has priority high
\* exactly when current_balance > 1.5 x threshold of the balance passed,
\* and medium otherwise.
C9_PriorityByBalance ==
    [][ \A a \in WrittenAlerts :
           \A b \in MatchingBalances(balances', a.customer_name, a.equipment_type) :
              /\ a.priority \in {"high", "medium"}
              /\ (a.priority = "high") <=>
                    (2 * b.current_balance > 3 * b.threshold)
      ]_vars

\* an alert of priority high whose excess is below 1.5 x threshold, next
\* to an alert of priority medium
C9_Witness ==
    \E a \in alerts, m \in alerts :
       /\ ~a.resolved /\ a.priority = "high"
       /\ a.current_balance = 38 /\ a.threshold = 20 /\ a.excess = 18
       /\ ~m.resolved /\ m.priority = "medium"

\* C10: after two calls of _create_alert with the same unchanged balance
\* and the commit, the pair has exactly one unresolved alert, with the
\* excess and the priority of that balance.
C10_UpsertIdempotent ==
    (sess["s1"].pc = "done" /\ sess["s1"].calls = 2) =>
       LET b == sess["s1"].bal
           open == UnresolvedAlerts(alerts, b.customer_name, b.equipment_type)
       IN  /\ Cardinality(open) = 1
           /\ \A a \in open :
                 a.excess = Excess(b) /\ a.priority = CalculatePriority(b)

\* the pairs a step applied a movement to
AppliedTo == {p \in Pairs : applied'[p] # applied[p]}

C13_ThresholdLeavesAlerts ==
    [][ (\E b \in balances, n \in balances' :
            n.id = b.id /\ n.threshold # b.threshold)
        => alerts' = alerts ]_vars

\* a balance back to normal by a threshold change whose alert is still
\* unresolved with the old threshold
C13_Witness ==
    \E b \in balances, a \in alerts :
       /\ PairOf(a) = PairOf(b)
       /\ b.threshold = 25 /\ b.status = "normal" /\ b.current_balance = 22
       /\ ~a.resolved /\ a.threshold = 20 /\ a.current_balance = 22

\* C14: an apply that leaves the status normal leaves every alert as it
\* was: the pair's unresolved alert keeps the values of the last breach.
C14_NormalApplyLeavesAlerts ==
    [][ \A p \in AppliedTo :
           (\E b \in MatchingBalances(balances', p[1], p[2]) : b.status = "normal")
           => alerts' = alerts ]_vars

\* a balance back at 0 whose alert still shows the breach at 30
C14_Witness ==
    \E b \in balances, a \in alerts :
       /\ PairOf(a) = PairOf(b)
       /\ applied[PairOf(b)] = [in |-> 30, out |-> 30]
       /\ b.current_balance = 0 /\ b.status = "normal"
       /\ ~a.resolved /\ a.current_balance = 30 /\ a.excess = 10

\* C15: a resolved alert is never changed again, and an apply that leaves
\* in breach a pair whose alerts are all resolved adds a new unresolved
\* alert row for it.
C15_ResolvedIsTerminal ==
    [][ /\ \A a \in alerts : a.resolved => a \in alerts'
        /\ \A p \in AppliedTo :
              ( /\ \E b \in MatchingBalances(balances', p[1], p[2]) :
                      b.status \in {"over_threshold", "negative"}
                /\ \E a \in alerts : PairOf(a) = p
                /\ \A a \in alerts : PairOf(a) = p => a.resolved )
              => \E n \in alerts' :
                    /\ \A a \in alerts : a.id # n.id
                    /\ PairOf(n) = p /\ ~n.resolved
      ]_vars

\* a resolved alert kept as it was next to the alert of a later breach
C15_Witness ==
    \E a \in alerts, n \in alerts :
       /\ PairOf(a) = PairOf(n) /\ n.id > a.id
       /\ a.resolved /\ a.current_balance = 30
       /\ ~n.resolved /\ n.current_balance = 38

\* a step of POST /upload-photo
UploadPhotoStep == ops' # ops /\ response'.endpoint = "upload-photo"

\* C16: a movement with quantity <= 0 or a direction other than 'in' and
\* 'out' is rejected before it is applied: POST /upload-photo stores no
\* such row and applies no such quantity.
C16_InvalidMovementRejected ==
    [][ UploadPhotoStep =>
          /\ \A r \in movements' \ movements :
                r.quantity > 0 /\ r.direction \in {"in", "out"}
          /\ \A p \in Pairs :
                /\ applied'[p].in >= applied[p].in
                /\ applied'[p].out >= applied[p].out
      ]_vars

\* C17: an upload whose extraction fails still answers without an error
\* and commits a movement row with confidence_score <= 0.5 and verified =
\* false.
C17_FailedExtractionStoresFallback ==
    [][ (ops' # ops /\ response'.extraction_failed) =>
          /\ response'.status = 200
          /\ \E r \in movements' \ movements :
                r.confidence_score <= 50 /\ r.verified = FALSE
      ]_vars

\* C18: a step of POST /upload-photo either stores nothing (always so when
\* the commit fails) or stores the movement row together with the balance
\* change of its pair and, when the balance is in breach, the pair's
\* unresolved alert carrying that balance.
C18_UploadAtomic ==
    [][ UploadPhotoStep =>
          \/ /\ movements' = movements /\ balances' = balances
             /\ alerts' = alerts /\ applied' = applied
          \/ /\ response'.status = 200
             /\ \E r \in movements' \ movements :
                  LET p   == PairOf(r)
                      old == IF RowsOf(p) = {} THEN 0
                             ELSE (CHOOSE b \in RowsOf(p) : TRUE).current_balance
                      sg  == IF r.direction = "in" THEN r.quantity
                             ELSE 0 - r.quantity
                  IN  /\ movements' = movements \cup {r}
                      /\ \E b \in MatchingBalances(balances', p[1], p[2]) :
                            /\ b.current_balance = old + sg
                            /\ (b.current_balance > b.threshold
                                  \/ b.current_balance < 0)
                               => \E a \in alerts' :
                                     /\ PairOf(a) = p /\ ~a.resolved
                                     /\ a.current_balance = b.current_balance
      ]_vars

\* a failed commit of a new movement after an upload that stored its row,
\* its balance and its alert
C18_Witness ==
    /\ response.endpoint = "upload-photo" /\ response.status = 500
    /\ response.movement_id \notin StoredIds
    /\ \E r \in movements, b \in balances, a \in alerts :
          /\ r.movement_id[1] = "mov" /\ r.quantity = 30 /\ r.direction = "in"
          /\ PairOf(b) = PairOf(r) /\ b.current_balance = 30
          /\ PairOf(a) = PairOf(r) /\ ~a.resolved /\ a.current_balance = 30

\* C20: a step of POST /upload-photo that ingests a movement whose
\* movement_id is already stored leaves the ledger, the balances and the
\* alerts as they were.
C20_ReplayChangesNothing ==
    [][ (UploadPhotoStep /\ response'.movement_id \in StoredIds) =>
          /\ balances' = balances /\ alerts' = alerts
          /\ movements' = movements
      ]_vars

\* a replay refused after the first ingestion was applied once
C20_Witness ==
    /\ response.endpoint = "upload-photo" /\ response.status = 500
    /\ \E r \in movements, b \in balances :
          /\ r.movement_id = response.movement_id
          /\ r.direction = "in" /\ r.quantity = 8
          /\ PairOf(b) = PairOf(r) /\ b.current_balance = 8
          /\ applied[PairOf(r)] = [in |-> 8, out |-> 0]

\* C19: the two orders of a batch of movements of one pair, applied one
\* at a time from the same store, end with the same current_balance and
\* the same status.
C19_OrderIndependent ==
    runs # <<>> =>
       /\ runs[1].balance.current_balance = runs[2].balance.current_balance
       /\ runs[1].balance.status = runs[2].balance.status

\* three movements whose one order passes through negative and whose
\* other order starts over the threshold, both ending over it
C19_Witness ==
    /\ runs # <<>>
    /\ Len(runs[1].order) = 3
    /\ runs[1].order[1].direction = "out" /\ runs[1].order[1].quantity = 8
    /\ runs[2].order[1].direction = "in" /\ runs[2].order[1].quantity = 30
    /\ runs[1].balance.current_balance = 52
    /\ runs[2].balance.status = "over_threshold"

\* ---------------------------------------------------------- SpecAdmin
NewBalanceRows == {b \in balances' : b.id \notin {r.id : r \in balances}}

\* C21: a balance row created by apply gets the default_threshold of an
\* EquipmentSpecification of its equipment type when one exists and the
\* global default otherwise, and starts from 0, so that it holds the signed
\* quantity of the movement that created it.
C21_SeedFromSpecification ==
    [][\A b \in NewBalanceRows :
         LET p == <<b.customer_name, b.equipment_type>>
             ofType == {x \in specs : x.equipment_type = b.equipment_type}
         IN  /\ b.threshold \in (IF ofType # {}
                                 THEN {x.default_threshold : x \in ofType}
                                 ELSE {DEFAULT_THRESHOLD})
             /\ b.current_balance = (applied'[p].in - applied[p].in)
                                     - (applied'[p].out - applied[p].out)]_vars

\* C22: the threshold of every balance row is >= 0 in every state reached
\* by apply and update_threshold.
C22_ThresholdNonNegative == \A b \in balances : b.threshold >= 0

DeleteCustomerStep == ops' # ops /\ response'.endpoint = "delete-customer"

\* C23: delete_customer removes at most the one customer it is asked for,
\* and only when no balance row and no ledger row carries its name;
\* otherwise it answers with an error that names the two counts, and in
\* both cases balances and movements are unchanged.
C23_DeleteCustomerBlocked ==
    [][DeleteCustomerStep =>
         /\ balances' = balances /\ movements' = movements
         /\ customers' \subseteq customers
         /\ \A c \in customers \ customers' :
               /\ {b \in balances : b.customer_name = c.customer_name} = {}
               /\ {r \in movements : r.customer_name = c.customer_name} = {}
         /\ response'.error => customers' = customers
         /\ ~response'.error => Cardinality(customers \ customers') = 1
         /\ (response'.balances_count + response'.movements_count > 0) =>
               /\ response'.error
               /\ \E c \in customers :
                    /\ response'.balances_count = Cardinality(
                          {b \in balances : b.customer_name = c.customer_name})
                    /\ response'.movements_count = Cardinality(
                          {r \in movements : r.customer_name = c.customer_name})]_vars

\* a deletion refused for a customer with one balance row and one ledger row
C23_Witness ==
    /\ response.endpoint = "delete-customer"
    /\ response.error
    /\ response.balances_count = 1 /\ response.movements_count = 1
    /\ \E c \in customers : c.customer_name = "c1"
    /\ \E b \in balances : b.customer_name = "c1"

DeleteSpecificationStep ==
    ops' # ops /\ response'.endpoint = "delete-specification"

\* C24: DELETE /equipment-specifications/{id} keeps every row; a
\* specification whose equipment type is used by a balance row is left as
\* it is, one that no balance row uses is at most deactivated, and a
\* request that is not refused deactivates one unused specification.
C24_DeleteSpecificationSoft ==
    [][DeleteSpecificationStep =>
         LET used(x) == \E b \in balances : b.equipment_type = x.equipment_type
             off(x) == [x EXCEPT !.is_active = FALSE]
         IN  /\ \A x \in specs :
                  IF used(x) THEN x \in specs'
                  ELSE x \in specs' \/ off(x) \in specs'
             /\ ~response'.error =>
                  \E x \in specs :
                     ~used(x) /\ specs' = (specs \ {x}) \cup {off(x)}]_vars

RenameStep ==
    /\ ops' # ops
    /\ response'.endpoint = "update-customer"
    /\ ~response'.error

\* C25: after update_customer has renamed a customer, the balance and
\* ledger rows recorded under its name before the rename are rows of its
\* name afterwards, so that delete_customer still counts them.
C25_RenameKeepsRows ==
    [][RenameStep =>
         \A c \in customers, d \in customers' :
            c.id = d.id =>
              /\ {b.id : b \in {r \in balances :
                                   r.customer_name = c.customer_name}}
                    \subseteq {b.id : b \in {r \in balances' :
                                   r.customer_name = d.customer_name}}
              /\ {m.movement_id : m \in {r \in movements :
                                   r.customer_name = c.customer_name}}
                    \subseteq {m.movement_id : m \in {r \in movements' :
                                   r.customer_name = d.customer_name}}]_vars

\* --------------------------------------------------------------- Spec
\* C26: an apply for pair p leaves every balance row and every alert of
\* the other pairs as they are, deletes no row, and creates or modifies at
\* most one balance row and at most one alert row.
C26_ApplyFrame ==
    [][\A p \in AppliedTo :
         /\ \A b \in balances \cup balances' :
               PairOf(b) # p => (b \in balances /\ b \in balances')
         /\ \A a \in alerts \cup alerts' :
               PairOf(a) # p => (a \in alerts /\ a \in alerts')
         /\ {b.id : b \in balances} \subseteq {b.id : b \in balances'}
         /\ {a.id : a \in alerts} \subseteq {a.id : a \in alerts'}
         /\ Cardinality({b.id : b \in balances' \ balances}) = 1
         /\ Cardinality({a.id : a \in alerts' \ alerts}) <= 1]_vars

\* two pairs of one customer: the pallet row is over its threshold with an
\* open alert, the cage row was applied after it and is normal
C26_Witness ==
    /\ \E b \in balances :
          PairOf(b) = <<"c1", "pallet">> /\ b.status = "over_threshold"
    /\ \E a \in alerts : PairOf(a) = <<"c1", "pallet">> /\ ~a.resolved
    /\ \E b \in balances :
          PairOf(b) = <<"c1", "cage">> /\ b.status = "normal"
                                       /\ b.current_balance = 8

\* C27: every unresolved alert has excess = max(0, current_balance -
\* threshold) for the current_balance and threshold stored on its own row.
C27_AlertSelfConsistent ==
    \A a \in alerts :
       ~a.resolved => a.excess = Max(0, a.current_balance - a.threshold)

\* -------------------------------------------------------- SpecLimiter
DispatchStep == ops' # ops /\ response'.endpoint = "dispatch"

\* C28: when a request of a client is admitted at time now, the requests
\* recorded for that client with a timestamp >= now - 60 are at most
\* requests_per_minute and those with a timestamp > now - 10 are at most
\* burst_size, the admitted request included; a rejected request adds no
\* timestamp to the history or to the client's deque.
C28_AdmittedWithinLimits ==
    [][DispatchStep =>
         LET c == response'.client
             now == response'.now
             mine == {x \in limiter'.recorded : x.client = c}
         IN  IF response'.status = 200
             THEN /\ \E x \in mine : x \notin limiter.recorded /\ x.time = now
                  /\ Cardinality({x \in mine : x.time >= now - MINUTE})
                        <= requests_per_minute
                  /\ Cardinality({x \in mine : x.time > now - BURST_WINDOW})
                        <= burst_size
             ELSE /\ limiter'.recorded = limiter.recorded
                  /\ c \in DOMAIN limiter.requests
                  /\ Len(limiter'.requests[c]) <= Len(limiter.requests[c])]_vars

\* a client admitted with its minute full, after older requests of its own
\* have left the window
C28_Witness ==
    /\ response.endpoint = "dispatch" /\ response.status = 200
    /\ LET mine == {x \in limiter.recorded : x.client = response.client}
       IN  /\ Cardinality(mine) > requests_per_minute
           /\ Cardinality({x \in mine : x.time >= response.now - MINUTE})
                 = requests_per_minute

\* ----------------------------------------------------------- SpecAuth
\* C29: for every instruction, a user that update_instruction_status
\* refuses has no user of a lower role that it does not refuse.
C29_RefusalMonotone ==
    \A i \in instructions, u \in users, v \in users :
       (RoleLevel(v.role) < RoleLevel(u.role) /\ Refused(u, i))
          => Refused(v, i)

\* C30: a bearer token that was issued to a user before that user logged
\* out or changed the password is rejected by get_current_user: GET
\* /auth/me with it is not answered 200.
C30_RevokedTokenRejected ==
    (response.endpoint = "auth/me" /\ response.status = 200) =>
       \A t \in tokens : t.n = response.token => ~t.revoked_since

====
